---- MODULE Spec2Model ----
(***************************************************************************)
(* A model of folder_to_carray.py: one run of the generator, from the      *)
(* argument check to the success message.  Text is kept as sequences of    *)
(* one-character strings wherever the program computes it (relative paths, *)
(* symbol names, quoted hex segments, the decimal length); every line the  *)
(* program writes is a record naming the statement that wrote it and       *)
(* holding the computed fields of that line.                               *)
(***************************************************************************)
EXTENDS Integers, Sequences, FiniteSets, TLC

VARIABLES
    argv,          \* sys.argv
    tree,          \* the files os.walk finds under the folder named "build", in its order
    pc,            \* the statement the run is at
    input_folder, output_base, c_file, h_file,
    c_state, h_state,   \* the two output files: untouched, open or closed
    f_c, f_h,      \* the lines written to them
    file_entries,
    idx,           \* the place in tree of the file the loop of line 98 is at
    cur,           \* the locals of one turn of that loop and of file_to_c_array
    stdout, stderr, exit_status

vars == <<argv, tree, pc, input_folder, output_base, c_file, h_file,
          c_state, h_state, f_c, f_h, file_entries, idx, cur, stdout, stderr,
          exit_status>>

(***************************************************************************)
(* Bounds of the model.                                                    *)
(***************************************************************************)
\* most files in a directory whose files hold short contents
MaxFiles == 2
\* longest content of the file of a one-file directory
MaxDataLen == 33
\* most command-line arguments after the program name
MaxArgs == 3

\* the wrap width of file_to_c_array
WRAP == 16

(***************************************************************************)
(* Characters and text helpers.                                            *)
(***************************************************************************)
HexDigits == <<"0","1","2","3","4","5","6","7","8","9","a","b","c","d","e","f">>
DecDigits == <<"0","1","2","3","4","5","6","7","8","9">>
Letters == {"a","b","c","d","e","f","g","h","i","j","k","l","m","n","o","p",
            "q","r","s","t","u","v","w","x","y","z"}
Digits == {DecDigits[i] : i \in 1..10}

\* str.replace(old, new) for one-character old and new
Replace(s, old, new) == [i \in 1..Len(s) |-> IF s[i] = old THEN new ELSE s[i]]

\* f"{n}" for a non-negative integer
RECURSIVE DecStr(_)
DecStr(n) == IF n < 10 THEN <<DecDigits[n + 1]>>
             ELSE Append(DecStr(n \div 10), DecDigits[(n % 10) + 1])

\* f"{b:x}": the width and the zero padding left out
Hex02_unpadded(b) ==
    IF b < 16 THEN <<HexDigits[b + 1]>>
    ELSE <<HexDigits[(b \div 16) + 1], HexDigits[(b % 16) + 1]>>

\* f"{b:02x}"
Hex02(b) == <<HexDigits[(b \div 16) + 1], HexDigits[(b % 16) + 1]>>

(***************************************************************************)
(* The inputs of a run: the command line and the file system.              *)
(***************************************************************************)
Prog == "folder_to_carray.py"
\* names a first argument may take, and what the file system holds there
Folders == {"build", "missing", "notes.txt"}
isdir(name) == name = "build"
\* names a second argument may take
Bases == {"embedded_build", "assets"}

Extra(k) == [i \in 1..k |-> "extra"]
ArgvChoices ==
    {<<Prog>>}
    \cup {<<Prog, f>> : f \in Folders}
    \cup {<<Prog, f, b>> \o Extra(k) : f \in Folders, b \in Bases, k \in 0..(MaxArgs - 2)}

\* relative paths of files under the input folder, as the platform spells them
P_index_html == <<"i","n","d","e","x",".","h","t","m","l">>
P_style_css == <<"s","t","y","l","e",".","c","s","s">>
P_sub_index_html == <<"s","u","b","/">> \o P_index_html
P_a_dash_b_js == <<"a","-","b",".","j","s">>
P_a_under_b_js == <<"a","_","b",".","j","s">>
P_a_slash_b_js == <<"a","/","b",".","j","s">>
P_a_backslash_b_js == <<"a","\\","b",".","j","s">>
P_1_js == <<"1",".","j","s">>
Paths == {P_index_html, P_style_css, P_sub_index_html, P_a_dash_b_js,
          P_a_under_b_js, P_a_slash_b_js, P_a_backslash_b_js, P_1_js}

\* file contents: n bytes starting at seed, stepping by 37 modulo 256
Bytes(n, seed) == [i \in 1..n |-> (seed + 37 * (i - 1)) % 256]
ShortData == {<<>>, <<104, 105>>}
LongData == {Bytes(n, seed) : n \in 0..MaxDataLen, seed \in {0, 250}}

File(p, d) == [path |-> p, data |-> d]
Depth(p) == Cardinality({i \in 1..Len(p) : p[i] = "/"})

\* os.walk yields the files of the top directory before those of its
\* subdirectories, and each file once
WalkOrder(t) ==
    /\ \A i, j \in 1..Len(t) : i # j => t[i].path # t[j].path
    /\ \A i, j \in 1..Len(t) : i < j => Depth(t[i].path) <= Depth(t[j].path)

RECURSIVE SeqsUpTo(_, _)
SeqsUpTo(S, n) ==
    IF n = 0 THEN {<<>>}
    ELSE LET shorter == SeqsUpTo(S, n - 1)
         IN shorter \cup {Append(t, x) : t \in shorter, x \in S}

Trees ==
    {t \in SeqsUpTo({File(p, d) : p \in Paths, d \in ShortData}, MaxFiles) : WalkOrder(t)}
    \cup {<<File(P_style_css, d)>> : d \in LongData}

(***************************************************************************)
(* Helpers (lines 43-54).                                                  *)
(***************************************************************************)
\* the chain of replacements with the one of "-" left out
to_c_identifier_no_dash(path) ==
    Replace(Replace(Replace(path, "/", "_"), "\\", "_"), ".", "_")

to_c_identifier(path) ==
    Replace(Replace(Replace(Replace(path, "/", "_"), "\\", "_"), "-", "_"), ".", "_")

\* the part of the path after the last dot of its last component, <<>> if none
RECURSIVE ExtFrom(_, _)
ExtFrom(path, i) ==
    IF i < 1 \/ path[i] = "/" THEN <<>>
    ELSE IF path[i] = "." THEN
        (IF i = 1 \/ path[i - 1] = "/" THEN <<>> ELSE SubSeq(path, i + 1, Len(path)))
    ELSE ExtFrom(path, i - 1)
Ext(path) == ExtFrom(path, Len(path))

guess_mime_type(file_path) ==
    LET e == Ext(file_path)
    IN IF e = <<"h","t","m","l">> THEN "text/html"
       ELSE IF e = <<"c","s","s">> THEN "text/css"
       ELSE IF e = <<"j","s">> THEN "text/javascript"
       ELSE "application/octet-stream"

\* os.path.join(root, file_name) for a file at relative path p
full_path(folder, p) == <<folder, "/">> \o p
\* os.path.relpath(full_path, input_folder).replace("\\", "/")
rel_path_of(p) == Replace(p, "\\", "/")

(***************************************************************************)
(* The lines the program writes.                                           *)
(***************************************************************************)
FileComment(path) == [kind |-> "file_comment", text |-> path]
ArrayOpen(name) == [kind |-> "array_open", text |-> name]
Segment(line) == [kind |-> "segment", text |-> line]
ArrayClose == [kind |-> "array_close", text |-> <<";">>]
LenConst(name, n) == [kind |-> "len_const", text |-> name \o <<"_","l","e","n">>, value |-> DecStr(n)]
CBanner == [kind |-> "banner", text |-> <<"// Auto-generated embedded files">>]
Include == [kind |-> "include", text |-> <<"embedded_build", ".h">>]
TableOpen == [kind |-> "table_open", text |-> <<"embedded_files">>]
Row(uri, name, mime) ==
    [kind |-> "row", uri |-> uri, data |-> name,
     length |-> name \o <<"_","l","e","n">>, content_type |-> mime]
TableClose == [kind |-> "table_close", text |-> <<"};">>]
CountDef == [kind |-> "count", text |-> <<"sizeof(embedded_files) / sizeof(embedded_files[0])">>]
HBanner == [kind |-> "banner", text |-> <<"// Auto-generated header for embedded files">>]
Typedef == [kind |-> "typedef", text |-> <<"embedded_file_t">>]
ExternArray(name) == [kind |-> "extern_array", text |-> name]
ExternLen(name) == [kind |-> "extern_len", text |-> name \o <<"_","l","e","n">>]
ExternTable == [kind |-> "extern_table", text |-> <<"embedded_files">>]
ExternCount == [kind |-> "extern_count", text |-> <<"embedded_files_count">>]

(***************************************************************************)
(* file_to_c_array (lines 56-75): the pieces of its loop.                  *)
(***************************************************************************)
Quote == <<"\"">>
\* line 67
AddEscape(line, b) == line \o <<"\\", "x">> \o Hex02(b)
\* i % 16 == 0: the wrap taken one byte early
WrapNow_off_by_one(i) == i % WRAP = 0
\* line 68: i is the zero-based index of the byte just added
WrapNow(i) == (i + 1) % WRAP = 0
\* line 71
FlushNeeded(line) == line # Quote

(***************************************************************************)
(* What the program prints.                                                *)
(***************************************************************************)
Usage(prog) == [kind |-> "usage", text |-> <<"Usage: ", prog, " <input_folder> <output_base>">>]
NotFound(folder) == [kind |-> "not_found", text |-> <<"Error: Folder '", folder, "' not found">>]
Success(c, h) == [kind |-> "success", text |-> <<"Generated ">> \o c \o <<" and ">> \o h]

(***************************************************************************)
(* The run.                                                                *)
(***************************************************************************)
\* the loop's locals before its first turn
NoFile == [path |-> <<>>, rel_path |-> <<>>, array_name |-> <<>>, mime_type |-> "",
           data |-> <<>>, i |-> 0, line |-> <<>>]

Init ==
    /\ argv \in ArgvChoices
    /\ tree \in Trees
    /\ pc = "args"
    /\ input_folder = ""
    /\ output_base = ""
    /\ c_file = <<>>
    /\ h_file = <<>>
    /\ c_state = "untouched"
    /\ h_state = "untouched"
    /\ f_c = <<>>
    /\ f_h = <<>>
    /\ file_entries = <<>>
    /\ idx = 1
    /\ cur = NoFile
    /\ stdout = <<>>
    /\ stderr = <<>>
    /\ exit_status = {}

\* len(sys.argv) < 3: extra arguments let through
BadArgc_too_few(a) == Len(a) < 3
\* line 27
BadArgc(a) == Len(a) # 3
\* line 36
BadFolder(folder) == ~isdir(folder)

\* lines 27-34
CheckArgs ==
    /\ pc = "args"
    /\ IF BadArgc(argv)
       THEN /\ stdout' = Append(stdout, Usage(argv[1]))
            /\ exit_status' = {1}
            /\ pc' = "exit"
            /\ UNCHANGED <<input_folder, output_base, c_file, h_file>>
       ELSE /\ input_folder' = argv[2]
            /\ output_base' = argv[3]
            /\ c_file' = <<argv[3], ".c">>
            /\ h_file' = <<argv[3], ".h">>
            /\ pc' = "isdir"
            /\ UNCHANGED <<stdout, exit_status>>
    /\ UNCHANGED <<argv, tree, c_state, h_state, f_c, f_h, file_entries, idx, cur, stderr>>

\* lines 36-38
CheckFolder ==
    /\ pc = "isdir"
    /\ IF BadFolder(input_folder)
       THEN /\ stdout' = Append(stdout, NotFound(input_folder))
            /\ exit_status' = {1}
            /\ pc' = "exit"
       ELSE /\ pc' = "open"
            /\ UNCHANGED <<stdout, exit_status>>
    /\ UNCHANGED <<argv, tree, input_folder, output_base, c_file, h_file,
                   c_state, h_state, f_c, f_h, file_entries, idx, cur, stderr>>

\* lines 80-94: both files are created (or truncated) and their heads written
OpenOutputs ==
    /\ pc = "open"
    /\ c_state' = "open"
    /\ h_state' = "open"
    /\ file_entries' = <<>>
    /\ f_h' = <<HBanner, Typedef>>
    /\ f_c' = <<CBanner, Include>>
    /\ idx' = 1
    /\ pc' = "walk"
    /\ UNCHANGED <<argv, tree, input_folder, output_base, c_file, h_file,
                   cur, stdout, stderr, exit_status>>

\* lines 98-102 and 58-65: the next file is named, read, and its array opened
ReadFile ==
    /\ pc = "walk"
    /\ idx <= Len(tree)
    /\ LET path == full_path(input_folder, tree[idx].path)
           rel_path == rel_path_of(tree[idx].path)
           array_name == to_c_identifier(rel_path)
           mime_type == guess_mime_type(path)
       IN /\ cur' = [path |-> path, rel_path |-> rel_path, array_name |-> array_name,
                     mime_type |-> mime_type, data |-> tree[idx].data,
                     i |-> 0, line |-> Quote]
          /\ f_c' = f_c \o <<FileComment(path), ArrayOpen(array_name)>>
    /\ pc' = "encode"
    /\ UNCHANGED <<argv, tree, input_folder, output_base, c_file, h_file,
                   c_state, h_state, f_h, file_entries, idx, stdout, stderr,
                   exit_status>>

\* lines 66-70, one turn of the loop over the bytes
EncodeByte ==
    /\ pc = "encode"
    /\ cur.i < Len(cur.data)
    /\ LET line == AddEscape(cur.line, cur.data[cur.i + 1])
       IN IF WrapNow(cur.i)
          THEN /\ f_c' = Append(f_c, Segment(line \o Quote))
               /\ cur' = [cur EXCEPT !.i = @ + 1, !.line = Quote]
          ELSE /\ f_c' = f_c
               /\ cur' = [cur EXCEPT !.i = @ + 1, !.line = line]
    /\ UNCHANGED <<argv, tree, pc, input_folder, output_base, c_file, h_file,
                   c_state, h_state, f_h, file_entries, idx, stdout, stderr,
                   exit_status>>

\* lines 71-75 and 106-109
FinishFile ==
    /\ pc = "encode"
    /\ cur.i >= Len(cur.data)
    /\ f_c' = f_c
              \o (IF FlushNeeded(cur.line) THEN <<Segment(cur.line \o Quote)>> ELSE <<>>)
              \o <<ArrayClose, LenConst(cur.array_name, Len(cur.data))>>
    /\ f_h' = f_h \o <<ExternArray(cur.array_name), ExternLen(cur.array_name)>>
    /\ file_entries' = Append(file_entries, <<cur.rel_path, cur.array_name, cur.mime_type>>)
    /\ idx' = idx + 1
    /\ pc' = "walk"
    /\ UNCHANGED <<argv, tree, input_folder, output_base, c_file, h_file,
                   c_state, h_state, cur, stdout, stderr, exit_status>>

\* the error caught and reported, and the loop carried on with the next file
ReadFailure_skip ==
    /\ pc = "walk"
    /\ idx <= Len(tree)
    /\ stderr' = Append(stderr, [kind |-> "traceback", text |-> full_path(input_folder, tree[idx].path)])
    /\ idx' = idx + 1
    /\ UNCHANGED <<argv, tree, pc, input_folder, output_base, c_file, h_file,
                   c_state, h_state, f_c, f_h, file_entries, cur, stdout, exit_status>>

\* lines 58-59 raising: the error leaves the with block of line 82, which
\* closes both files, and ends the program
ReadFailure ==
    /\ pc = "walk"
    /\ idx <= Len(tree)
    /\ stderr' = Append(stderr, [kind |-> "traceback", text |-> full_path(input_folder, tree[idx].path)])
    /\ c_state' = "closed"
    /\ h_state' = "closed"
    /\ exit_status' = {1}
    /\ pc' = "exit"
    /\ UNCHANGED <<argv, tree, input_folder, output_base, c_file, h_file,
                   f_c, f_h, file_entries, idx, cur, stdout>>

\* rel_path.endswith("index.html"): any index.html, wherever it lies
IsIndex_basename(rel_path) ==
    /\ Len(rel_path) >= 10
    /\ SubSeq(rel_path, Len(rel_path) - 9, Len(rel_path)) = <<"i","n","d","e","x",".","h","t","m","l">>

\* line 117
IsIndex(rel_path) == rel_path = <<"i","n","d","e","x",".","h","t","m","l">>

\* the row of an entry with the alias of lines 117-120 left out
RowsOf_no_alias(entry) == <<Row(<<"/">> \o entry[1], entry[2], entry[3])>>

\* lines 114-120, for one entry
RowsOf(entry) ==
    <<Row(<<"/">> \o entry[1], entry[2], entry[3])>>
    \o (IF IsIndex(entry[1]) THEN <<Row(<<"/">>, entry[2], entry[3])>> ELSE <<>>)

\* lines 113-120
RECURSIVE Rows(_)
Rows(entries) ==
    IF entries = <<>> THEN <<>> ELSE RowsOf(Head(entries)) \o Rows(Tail(entries))

\* lines 112-126 and the end of the with block of line 82
EmitTable ==
    /\ pc = "walk"
    /\ idx > Len(tree)
    /\ f_c' = f_c \o <<TableOpen>> \o Rows(file_entries) \o <<TableClose, CountDef>>
    /\ f_h' = f_h \o <<ExternTable, ExternCount>>
    /\ c_state' = "closed"
    /\ h_state' = "closed"
    /\ pc' = "print"
    /\ UNCHANGED <<argv, tree, input_folder, output_base, c_file, h_file,
                   file_entries, idx, cur, stdout, stderr, exit_status>>

\* line 128 and the end of the program
PrintSuccess ==
    /\ pc = "print"
    /\ stdout' = Append(stdout, Success(c_file, h_file))
    /\ exit_status' = {0}
    /\ pc' = "exit"
    /\ UNCHANGED <<argv, tree, input_folder, output_base, c_file, h_file,
                   c_state, h_state, f_c, f_h, file_entries, idx, cur, stderr>>

Next ==
    \/ CheckArgs
    \/ CheckFolder
    \/ OpenOutputs
    \/ ReadFile
    \/ EncodeByte
    \/ FinishFile
    \/ ReadFailure
    \/ EmitTable
    \/ PrintSuccess

Spec == Init /\ [][Next]_vars

(***************************************************************************)
(* Reading the written lines back.                                         *)
(***************************************************************************)
KindAt(f, k) == {j \in 1..Len(f) : f[j].kind = k}
Nth(S, k) == CHOOSE x \in S : Cardinality({y \in S : y < x}) = k - 1
Done == pc = "exit" /\ exit_status = {0}
Printed(k) == \E j \in 1..Len(stdout) : stdout[j].kind = k

\* the lines between the opening and the closing line of the k-th array of f_c
ArrayBody(k) ==
    SubSeq(f_c, Nth(KindAt(f_c, "array_open"), k) + 1, Nth(KindAt(f_c, "array_close"), k) - 1)
\* the length constant that follows the k-th array
ArrayLen(k) == f_c[Nth(KindAt(f_c, "array_close"), k) + 1]

IsHex(c) == \E v \in 1..16 : HexDigits[v] = c
HexVal(c) == (CHOOSE v \in 1..16 : HexDigits[v] = c) - 1
\* a quoted run of \xHH escapes, and nothing else
WellFormed(text) ==
    /\ Len(text) >= 2
    /\ text[1] = "\"" /\ text[Len(text)] = "\""
    /\ (Len(text) - 2) % 4 = 0
    /\ \A j \in 1..((Len(text) - 2) \div 4) :
          /\ text[4 * j - 2] = "\\" /\ text[4 * j - 1] = "x"
          /\ IsHex(text[4 * j]) /\ IsHex(text[4 * j + 1])
Escapes(text) == (Len(text) - 2) \div 4
\* the bytes a quoted segment stands for; <<-1>> if it is no run of escapes
DecodeSegment(text) ==
    IF WellFormed(text)
    THEN [j \in 1..Escapes(text) |-> 16 * HexVal(text[4 * j]) + HexVal(text[4 * j + 1])]
    ELSE <<-1>>
RECURSIVE Decode(_)
Decode(lines) ==
    IF lines = <<>> THEN <<>>
    ELSE (IF Head(lines).kind = "segment" THEN DecodeSegment(Head(lines).text) ELSE <<-1>>)
         \o Decode(Tail(lines))
RECURSIVE ParseDec(_)
ParseDec(d) ==
    IF d = <<>> THEN 0
    ELSE 10 * ParseDec(SubSeq(d, 1, Len(d) - 1))
         + ((CHOOSE v \in 1..10 : DecDigits[v] = d[Len(d)]) - 1)

LenSuffix == <<"_","l","e","n">>
Rows_c == {j \in 1..Len(f_c) : f_c[j].kind = "row"}
RootRows == {j \in Rows_c : f_c[j].uri = <<"/">>}

(***************************************************************************)
(* C1: for every file written, decoding the hex escapes of its quoted      *)
(* segments in output order gives back the bytes of the file, and the      *)
(* decimal value of its _len constant is the number of those bytes.        *)
(***************************************************************************)
C1_RoundTrip ==
    \A k \in 1..Len(file_entries) :
        /\ Decode(ArrayBody(k)) = tree[k].data
        /\ ArrayLen(k).kind = "len_const"
        /\ ArrayLen(k).text = file_entries[k][2] \o LenSuffix
        /\ ParseDec(ArrayLen(k).value) = Len(tree[k].data)

\* a file of more than two full segments and a partial one has been written
C1_Witness ==
    /\ Len(file_entries) = 1
    /\ Len(tree[1].data) > 2 * WRAP
    /\ Len(tree[1].data) % WRAP # 0
    /\ tree[1].data[1] = 250

(***************************************************************************)
(* C2: after a successful run on a folder that holds files, the table has  *)
(* one row per file found and one more for each file whose relative path   *)
(* is index.html, all between the table's opening and closing lines, and   *)
(* the count is defined after them.                                        *)
(***************************************************************************)
C2_RowCount ==
    (Done /\ Len(tree) > 0) =>
        /\ Cardinality(Rows_c)
             = Len(tree)
               + Cardinality({k \in 1..Len(tree) : rel_path_of(tree[k].path) = P_index_html})
        /\ Cardinality(KindAt(f_c, "table_open")) = 1
        /\ Cardinality(KindAt(f_c, "table_close")) = 1
        /\ \A j \in Rows_c :
              /\ Nth(KindAt(f_c, "table_open"), 1) < j
              /\ j < Nth(KindAt(f_c, "table_close"), 1)
        /\ f_c[Len(f_c)].kind = "count"

\* a successful run over index.html and one other file
C2_Witness ==
    /\ Done
    /\ Len(tree) = 2
    /\ \E k \in 1..2 : tree[k].path = P_index_html

(***************************************************************************)
(* C3: after a successful run, a top-level index.html has a row "/" with   *)
(* the symbol, length constant and content type of its row "/index.html";  *)
(* index.html with style.css gives exactly the rows /index.html, / and     *)
(* /style.css; without a top-level index.html (one in a subdirectory       *)
(* included) there is no row "/".                                          *)
(***************************************************************************)
C3_RootAlias ==
    Done =>
        /\ \A k \in 1..Len(file_entries) :
              file_entries[k][1] = P_index_html =>
                 \E a, b \in Rows_c :
                    /\ f_c[a].uri = <<"/">> \o P_index_html
                    /\ f_c[b].uri = <<"/">>
                    /\ b = a + 1
                    /\ f_c[a].data = file_entries[k][2]
                    /\ f_c[b].data = f_c[a].data
                    /\ f_c[b].length = f_c[a].length
                    /\ f_c[b].content_type = f_c[a].content_type
        /\ {tree[k].path : k \in 1..Len(tree)} = {P_index_html, P_style_css} =>
              /\ Cardinality(Rows_c) = 3
              /\ {f_c[j].uri : j \in Rows_c}
                   = {<<"/">> \o P_index_html, <<"/">>, <<"/">> \o P_style_css}
        /\ (\A k \in 1..Len(tree) : tree[k].path # P_index_html) => RootRows = {}

\* a successful run over index.html and style.css
C3_Witness ==
    /\ Done
    /\ {tree[k].path : k \in 1..Len(tree)} = {P_index_html, P_style_css}

\* a successful run over sub/index.html alone
C3_SubdirectoryReached ==
    /\ Done
    /\ Len(tree) = 1
    /\ tree[1].path = P_sub_index_html

(***************************************************************************)
(* C4: when the arguments after the program name are not exactly two, or   *)
(* the first names no directory, the run goes no further than the two      *)
(* checks, leaves both output files untouched, and ends with status 1      *)
(* after printing one message.                                             *)
(***************************************************************************)
BadInvocation == Len(argv) # 3 \/ ~isdir(argv[2])

C4_RejectedBeforeOutput ==
    BadInvocation =>
        /\ pc \in {"args", "isdir", "exit"}
        /\ c_state = "untouched" /\ h_state = "untouched"
        /\ f_c = <<>> /\ f_h = <<>>
        /\ pc = "exit" =>
              /\ exit_status = {1}
              /\ Len(stdout) = 1
              /\ stdout[1].kind = (IF Len(argv) # 3 THEN "usage" ELSE "not_found")

\* a run with three arguments has ended
C4_Witness ==
    /\ pc = "exit"
    /\ Len(argv) = 4

\* a run on a name that is a regular file has ended
C4_NotADirectoryReached ==
    /\ pc = "exit"
    /\ Len(argv) = 3
    /\ argv[2] = "notes.txt"

(***************************************************************************)
(* C5: the symbol name of every file found is an identifier of C: not      *)
(* empty, a letter or underscore first, then letters, digits, underscores. *)
(***************************************************************************)
ValidIdentifier(name) ==
    /\ Len(name) > 0
    /\ name[1] \in Letters \cup {"_"}
    /\ \A i \in 1..Len(name) : name[i] \in Letters \cup Digits \cup {"_"}

C5_ValidIdentifier ==
    \A k \in 1..Len(file_entries) : ValidIdentifier(file_entries[k][2])

(***************************************************************************)
(* C6: for a file of no bytes the array's initializer is a quoted segment  *)
(* that holds no escape, and the length constant is 0.                     *)
(***************************************************************************)
C6_EmptyLiteral ==
    \A k \in 1..Len(file_entries) :
        tree[k].data = <<>> =>
            /\ ArrayBody(k) # <<>>
            /\ \A j \in 1..Len(ArrayBody(k)) :
                  /\ ArrayBody(k)[j].kind = "segment"
                  /\ ArrayBody(k)[j].text = <<"\"", "\"">>
            /\ ArrayLen(k).value = <<"0">>

(***************************************************************************)
(* C7: the include line of <output_base>.c names <output_base>.h, the      *)
(* declarations file of the same run.                                      *)
(***************************************************************************)
C7_IncludesOwnHeader ==
    c_state # "untouched" =>
        /\ KindAt(f_c, "include") # {}
        /\ \A j \in KindAt(f_c, "include") : f_c[j].text = h_file

(***************************************************************************)
(* C8: once a read has failed the run has ended with a status that is not  *)
(* 0, at the file that failed: the definitions file holds the arrays of    *)
(* the files before it and nothing else after its head, the declarations   *)
(* file their externs, neither holds the table, the count or their         *)
(* externs, and no success message is printed.  The success message is     *)
(* printed only with every file found encoded, the table, the count and    *)
(* their externs written and both files closed.                            *)
(***************************************************************************)
ReadFailed == stderr # <<>>

C8_AllOrNothing ==
    /\ ReadFailed =>
          /\ pc = "exit"
          /\ exit_status # {} /\ 0 \notin exit_status
          /\ ~ENABLED Next
          /\ idx <= Len(tree)
          /\ Len(file_entries) = idx - 1
          /\ Cardinality(KindAt(f_c, "array_open")) = idx - 1
          /\ Cardinality(KindAt(f_c, "len_const")) = idx - 1
          /\ \A j \in KindAt(f_c, "file_comment") :
                \E k \in 1..(idx - 1) : f_c[j].text = full_path(input_folder, tree[k].path)
          /\ Len(f_c) > 0 => f_c[Len(f_c)].kind \in {"include", "len_const"}
          /\ Len(f_h) = 2 + 2 * (idx - 1)
          /\ KindAt(f_c, "table_open") \cup KindAt(f_c, "row")
                \cup KindAt(f_c, "table_close") \cup KindAt(f_c, "count") = {}
          /\ KindAt(f_h, "extern_table") \cup KindAt(f_h, "extern_count") = {}
          /\ ~Printed("success")
    /\ Printed("success") =>
          /\ ~ReadFailed
          /\ Len(file_entries) = Len(tree)
          /\ Cardinality(KindAt(f_c, "array_open")) = Len(tree)
          /\ Cardinality(KindAt(f_c, "array_close")) = Len(tree)
          /\ Cardinality(KindAt(f_c, "len_const")) = Len(tree)
          /\ Cardinality(KindAt(f_h, "extern_array")) = Len(tree)
          /\ Cardinality(KindAt(f_h, "extern_len")) = Len(tree)
          /\ f_c[Len(f_c)].kind = "count"
          /\ f_h[Len(f_h)].kind = "extern_count"
          /\ c_state = "closed" /\ h_state = "closed"

\* the read of the second of two files has failed
C8_Witness ==
    /\ ReadFailed
    /\ idx = 2
    /\ Len(tree) = 2

(***************************************************************************)
(* C9: a file of n bytes is written as ceil(n/16) quoted segments, each a  *)
(* line of its own; all but the last hold 16 escapes, the last holds 1 to  *)
(* 16, none is empty, and the last holds fewer than 16 exactly when n is   *)
(* no multiple of 16.                                                      *)
(***************************************************************************)
C9_Segments ==
    \A k \in 1..Len(file_entries) :
        LET n == Len(tree[k].data)
            body == ArrayBody(k)
            m == Len(body)
        IN /\ m = (n + WRAP - 1) \div WRAP
           /\ \A j \in 1..m :
                 /\ body[j].kind = "segment"
                 /\ WellFormed(body[j].text)
                 /\ Escapes(body[j].text) >= 1
                 /\ Escapes(body[j].text) <= WRAP
                 /\ j < m => Escapes(body[j].text) = WRAP
           /\ (m > 0 /\ Escapes(body[m].text) < WRAP) <=> (n % WRAP # 0)

\* a file of exactly two full segments has been written
C9_Witness ==
    /\ Len(file_entries) = 1
    /\ Len(tree[1].data) = 2 * WRAP

(***************************************************************************)
(* C10: two relative paths that differ only in which of / \ - . _ stands   *)
(* at the same places get the same symbol name, and a run over a folder    *)
(* that holds two such files, with no read failing, ends with status 0     *)
(* and the success message, having written two arrays, two extern pairs    *)
(* and two rows that use that one name.                                    *)
(***************************************************************************)
Merged == {"/", "\\", "-", ".", "_"}
DifferOnlyInMerged(p, q) ==
    /\ p # q
    /\ Len(p) = Len(q)
    /\ \A i \in 1..Len(p) : p[i] = q[i] \/ {p[i], q[i]} \subseteq Merged
Uses(f, field, name) == Cardinality({j \in 1..Len(f) : f[j].kind = field /\ f[j].text = name})

C10_Collision ==
    /\ \A p, q \in Paths : DifferOnlyInMerged(p, q) => to_c_identifier(p) = to_c_identifier(q)
    /\ \A a, b \in 1..Len(tree) :
          (/\ DifferOnlyInMerged(rel_path_of(tree[a].path), rel_path_of(tree[b].path))
           /\ pc = "exit" /\ ~BadInvocation /\ ~ReadFailed) =>
              LET name == file_entries[a][2]
                  sharing == Cardinality({k \in 1..Len(file_entries) : file_entries[k][2] = name})
              IN /\ exit_status = {0}
                 /\ Printed("success")
                 /\ file_entries[b][2] = name
                 /\ sharing >= 2
                 /\ Uses(f_c, "array_open", name) = sharing
                 /\ Uses(f_c, "len_const", name \o LenSuffix) = sharing
                 /\ Uses(f_h, "extern_array", name) = sharing
                 /\ Uses(f_h, "extern_len", name \o LenSuffix) = sharing
                 /\ Cardinality({j \in Rows_c : f_c[j].data = name}) >= sharing

\* a successful run over a-b.js and a_b.js
C10_Witness ==
    /\ Done
    /\ {tree[k].path : k \in 1..Len(tree)} = {P_a_dash_b_js, P_a_under_b_js}

====
